---- MODULE Spec2Model ----
(***************************************************************************)
(* Model of the client-side speech playback of src/app.py: the per-button  *)
(* script emitted by create_instant_speech_button (instantSpeak,           *)
(* resetButton, playFallbackAudio and their event handlers), the browser   *)
(* speech engine and the fallback Audio clips it drives.                   *)
(***************************************************************************)
EXTENDS Integers, Sequences, FiniteSets, TLC

\* Bound of the model: number of accepted requests on the playback buttons.
MaxSessions == 3

\* Bound of the model: number of accepted sequential playback requests.
MaxRuns == 2

\* Bound of the card model: utterances made on one card by all its surfaces.
MaxCardUtterances == 2

\* Bound of the sequential model: requests accepted plus utterances made.
MaxBothWork == 3

\* Bound of the session model: rows of the published sheet.
MaxRows == 3

\* Bound of the estimate model: characters of the text.
MaxLen == 12

\* estimated_duration = max(2000, (len(text) / 12) * 1000 * (1 / rate) + 1500)
FloorMs == 2000
CharsPerSecond == 12
MsPerSecond == 1000
MarginMs == 1500

\* JavaScript null of window.speechTimer_{button_id}.
Null == 0

\* The two single-utterance playback buttons of a card.
Buttons == {"english", "korean"}

\* lang argument of create_instant_speech_button for each button.
Lang(b) == IF b = "english" THEN "en" ELSE "ko"

\* lang_code = 'en-US' if lang == 'en' else 'ko-KR'
LangCode(lang) == IF lang = "en" THEN "en-US" ELSE "ko-KR"

\* The gTTS block: the embedded clip for (text, lang), or the empty string
\* when rendering raised (except: pass) or produced no bytes.
RenderFallback(text, lang, ok) == IF ok THEN <<text, lang>> ELSE <<>>

Range(q) == {q[i] : i \in 1..Len(q)}

\* A Word cell of the sheet, as a sequence of characters. Rows whose Word is
\* blank are dropped when the sheet is loaded, so the word is never blank.
Word == <<"a", "p", "p", "l", "e">>

\* Meaning cells the loaded sheet can hold: dropna removes the missing ones,
\* and nothing removes one that holds only white space.
Meanings == {<<"s", "a", "g", "w", "a">>, <<" ">>}

VARIABLES
    meaning,        \* word_data['Meaning'] of the card shown
    isPlaying,      \* window.isPlaying_{button_id}
    speechTimer,    \* window.speechTimer_{button_id}: Null or a timer handle
    disabled,       \* button.disabled (label and opacity change with it)
    status,         \* status_{button_id}.innerHTML
    fallbackAudio,  \* the base64 clip embedded in each button's script
    engine,         \* window.speechSynthesis && 'SpeechSynthesisUtterance' in window
    renderCalls,    \* number of gTTS renderings made so far
    watchdogs,      \* handles of the pending speechTimer timeouts
    clearTimers,    \* pending status-clearing timeouts per button
    queue,          \* speechSynthesis utterance queue, head is being voiced
    cancelled,      \* utterances removed by cancel() whose event is undelivered
    clips,          \* Audio objects playing
    sessions,       \* utterance made by each accepted request, by handle
    terminals,      \* terminal indicators shown on behalf of each request
    lastEvent,      \* the handler that ran last
    bothPlaying,    \* bothPlaying_{current_idx}
    bothTimer,      \* bothTimer_{current_idx}: Null or a timer handle
    bothDisabled,   \* both_btn_{current_idx}.disabled
    bothStatus,     \* both_status_{current_idx}.innerHTML
    bothClears,     \* pending timeouts blanking both_status
    outerTimers,    \* handles of the pending 15 s timeouts
    runs,           \* closure of each accepted sequential request
    vocab_data,     \* st.session_state.vocab_data
    current_index,  \* st.session_state.current_index
    data_loaded,    \* st.session_state.data_loaded
    cache,          \* results st.cache_data holds for load_csv_data
    screen,         \* what the last script run drew in the main area
    lastLoad,       \* outcome of the most recent attempt of auto_load_data
    navEvent,       \* the widget the user used last, and the cursor before it
    estimate,       \* the last evaluation of estimated_duration
    estimateBefore  \* the evaluation before it

buttonVars == <<isPlaying, speechTimer, disabled, status, watchdogs, clearTimers,
                clips, terminals>>

bothVars == <<bothPlaying, bothTimer, bothDisabled, bothStatus, bothClears,
              outerTimers, runs>>

\* text argument of create_instant_speech_button for each button.
Text(b) == IF b = "english" THEN Word ELSE meaning

\* The state of the scripts embedded in the page.
scriptVars == <<meaning, isPlaying, speechTimer, disabled, status, fallbackAudio,
                engine, renderCalls, watchdogs, clearTimers, queue, cancelled,
                clips, sessions, terminals, lastEvent, bothPlaying, bothTimer,
                bothDisabled, bothStatus, bothClears, outerTimers, runs>>

\* The state of the Streamlit session.
navVars == <<vocab_data, current_index, data_loaded, cache, screen, lastLoad,
             navEvent>>

\* Evaluations of the duration estimate.
estVars == <<estimate, estimateBefore>>

vars == <<scriptVars, navVars, estVars>>

\* The script state a handler reads and writes; ind collects the terminal
\* indicators the handler writes to the status line.
State ==
    [isPlaying |-> isPlaying, speechTimer |-> speechTimer, disabled |-> disabled,
     status |-> status, watchdogs |-> watchdogs, clearTimers |-> clearTimers,
     queue |-> queue, cancelled |-> cancelled, clips |-> clips,
     renderCalls |-> renderCalls, bothPlaying |-> bothPlaying,
     bothTimer |-> bothTimer, bothDisabled |-> bothDisabled,
     bothStatus |-> bothStatus, bothClears |-> bothClears,
     outerTimers |-> outerTimers, runs |-> runs, ind |-> <<>>]

\* clearTimeout(h)
ClearTimeout(pending, h) == pending \ {h}

\* function resetButton_{button_id}()
ResetButton(s, b) ==
    [s EXCEPT !.disabled[b] = FALSE,
              !.status[b] = "done",
              !.clearTimers[b] = @ + 1,
              !.ind = Append(@, "done"),
              !.isPlaying[b] = FALSE,
              !.watchdogs = IF s.speechTimer[b] # Null
                            THEN ClearTimeout(@, s.speechTimer[b]) ELSE @,
              !.speechTimer[b] = Null]

\* audio.onerror of the fallback clip
AudioOnError(s, b) ==
    [s EXCEPT !.disabled[b] = FALSE,
              !.status[b] = "failed",
              !.clearTimers[b] = @ + 1,
              !.ind = Append(@, "failed"),
              !.isPlaying[b] = FALSE]

\* function playFallbackAudio_{button_id}(); audioOk = FALSE is the catch
\* branch (new Audio / play threw).
PlayFallbackAudio(s, b, id, audioOk) ==
    IF fallbackAudio[b] # <<>>
    THEN IF audioOk
         THEN [s EXCEPT !.status[b] = "playingServer",
                        !.clips = @ \cup {[id |-> id, audio |-> fallbackAudio[b]]}]
         ELSE ResetButton([s EXCEPT !.status[b] = "playingServer"], b)
    ELSE ResetButton(s, b)

\* speechSynthesis.cancel(): the queue is emptied; the removed utterances may
\* still be sent an end or error event by the browser.
Cancel(s) == [s EXCEPT !.cancelled = @ \cup Range(s.queue), !.queue = <<>>]

\* instantSpeak without its duplicate-execution guard.
InstantSpeakNoGuard(s, b, id, throws, audioOk) ==
    LET s1 == IF engine THEN [s EXCEPT !.cancelled = @ \cup Range(s.queue),
                                       !.queue = <<>>] ELSE s
        s2 == [s1 EXCEPT !.watchdogs = IF s.speechTimer[b] # Null
                                       THEN @ \ {s.speechTimer[b]} ELSE @]
        s3 == [s2 EXCEPT !.isPlaying[b] = TRUE,
                         !.disabled[b] = TRUE,
                         !.status[b] = "playing"]
        s4 == [s3 EXCEPT !.speechTimer[b] = id,
                         !.watchdogs = @ \cup {id}]
    IN  IF engine /\ ~throws
        THEN [s4 EXCEPT !.queue = Append(@, id)]
        ELSE PlayFallbackAudio(s4, b, id, audioOk)

\* instantSpeak that arms no forced-completion timer.
InstantSpeakNoWatchdog(s, b, id, throws, audioOk) ==
    IF s.isPlaying[b] THEN s
    ELSE
      LET s1 == IF engine THEN [s EXCEPT !.cancelled = @ \cup Range(s.queue),
                                         !.queue = <<>>] ELSE s
          s3 == [s1 EXCEPT !.isPlaying[b] = TRUE,
                           !.disabled[b] = TRUE,
                           !.status[b] = "playing"]
      IN  IF engine /\ ~throws
          THEN [s3 EXCEPT !.queue = Append(@, id)]
          ELSE PlayFallbackAudio(s3, b, id, audioOk)

\* function instantSpeak_{button_id}(); id is the handle setTimeout returns,
\* throws = the try block around the Web Speech API calls threw. The button
\* and status elements are part of the same markup, so they are always found.
InstantSpeak(s, b, id, throws, audioOk) ==
    IF s.isPlaying[b] THEN s
    ELSE
      LET s1 == IF engine THEN Cancel(s) ELSE s
          s2 == [s1 EXCEPT !.watchdogs = IF s.speechTimer[b] # Null
                                         THEN ClearTimeout(@, s.speechTimer[b]) ELSE @]
          s3 == [s2 EXCEPT !.isPlaying[b] = TRUE,
                           !.disabled[b] = TRUE,
                           !.status[b] = "playing"]
          s4 == [s3 EXCEPT !.speechTimer[b] = id,
                           !.watchdogs = @ \cup {id}]
      IN  IF engine /\ ~throws
          THEN [s4 EXCEPT !.queue = Append(@, id)]
          ELSE PlayFallbackAudio(s4, b, id, audioOk)

\* utterance.onend
UtteranceOnEnd(s, b) == ResetButton(s, b)

\* utterance.onerror that resets the button itself.
UtteranceOnErrorResets(s, b, id, audioOk) == ResetButton(s, b)

\* An utterance.onerror that clears the speechTimer timeout before it
\* delegates to the fallback.
UtteranceOnErrorClearsTimer(s, b, id, audioOk) ==
    PlayFallbackAudio([s EXCEPT !.watchdogs = IF s.speechTimer[b] # Null
                                              THEN ClearTimeout(@, s.speechTimer[b])
                                              ELSE @,
                                !.speechTimer[b] = Null], b, id, audioOk)

\* utterance.onerror
UtteranceOnError(s, b, id, audioOk) == PlayFallbackAudio(s, b, id, audioOk)

\* The speechTimer timeout callback
WatchdogCallback(s, b) == ResetButton(s, b)

\* audio.onended of the fallback clip
AudioOnEnded(s, b) == ResetButton(s, b)

\* function resetBothButton_{current_idx}()
ResetBothButton(s) ==
    [s EXCEPT !.bothDisabled = FALSE,
              !.bothStatus = "done",
              !.bothClears = @ + 1,
              !.ind = Append(@, "bothDone"),
              !.outerTimers = IF s.bothTimer # Null
                              THEN ClearTimeout(@, s.bothTimer) ELSE @,
              !.bothTimer = Null,
              !.bothPlaying = FALSE]

\* The closure of one call of playBothSequentially: its two ended flags and
\* which of its timeouts (English safety, 500 ms delay, Korean safety) pend.
NewRun(spoken) ==
    [englishEnded |-> FALSE, koreanEnded |-> FALSE, enSafety |-> spoken,
     delay |-> FALSE, koSafety |-> FALSE, resets |-> 0]

\* playBothSequentially without its bothPlaying guard.
PlayBothSequentiallyNoGuard(s, r, id) ==
    LET s1 == [s EXCEPT !.bothPlaying = TRUE]
        s2 == IF engine THEN Cancel(s1) ELSE s1
        s3 == [s2 EXCEPT !.outerTimers = IF s.bothTimer # Null
                                         THEN ClearTimeout(@, s.bothTimer) ELSE @]
        s4 == [s3 EXCEPT !.bothDisabled = TRUE, !.bothStatus = "english"]
        s5 == [s4 EXCEPT !.bothTimer = r, !.outerTimers = @ \cup {r}]
    IN  IF engine
        THEN [s5 EXCEPT !.queue = Append(@, id),
                        !.runs = Append(@, NewRun(TRUE))]
        ELSE [s5 EXCEPT !.runs = Append(@, NewRun(FALSE))]

\* playBothSequentially without its 15 s timer.
PlayBothSequentiallyNoTimer(s, r, id) ==
    IF s.bothPlaying THEN s
    ELSE
      LET s1 == [s EXCEPT !.bothPlaying = TRUE]
          s2 == IF engine THEN Cancel(s1) ELSE s1
          s3 == [s2 EXCEPT !.outerTimers = IF s.bothTimer # Null
                                           THEN ClearTimeout(@, s.bothTimer) ELSE @]
          s4 == [s3 EXCEPT !.bothDisabled = TRUE, !.bothStatus = "english"]
      IN  IF engine
          THEN [s4 EXCEPT !.queue = Append(@, id),
                          !.runs = Append(@, NewRun(TRUE))]
          ELSE [s4 EXCEPT !.runs = Append(@, NewRun(FALSE))]

\* function playBothSequentially_{current_idx}(); r is the handle setTimeout
\* returns for the 15 s timer, id the English utterance. Without the Web
\* Speech API the constructor call raises and the rest of the body is skipped.
PlayBothSequentially(s, r, id) ==
    IF s.bothPlaying THEN s
    ELSE
      LET s1 == [s EXCEPT !.bothPlaying = TRUE]
          s2 == IF engine THEN Cancel(s1) ELSE s1
          s3 == [s2 EXCEPT !.outerTimers = IF s.bothTimer # Null
                                           THEN ClearTimeout(@, s.bothTimer) ELSE @]
          s4 == [s3 EXCEPT !.bothDisabled = TRUE, !.bothStatus = "english"]
          s5 == [s4 EXCEPT !.bothTimer = r, !.outerTimers = @ \cup {r}]
      IN  IF engine
          THEN [s5 EXCEPT !.queue = Append(@, id),
                          !.runs = Append(@, NewRun(TRUE))]
          ELSE [s5 EXCEPT !.runs = Append(@, NewRun(FALSE))]

\* englishUtterance.onend of run r
EnglishOnEnd(s, r) ==
    IF s.runs[r].englishEnded THEN s
    ELSE [s EXCEPT !.runs[r].englishEnded = TRUE,
                   !.bothStatus = "korean",
                   !.runs[r].delay = TRUE]

\* englishUtterance.onerror of run r
EnglishOnError(s, r) ==
    IF s.runs[r].englishEnded THEN s
    ELSE ResetBothButton([s EXCEPT !.runs[r].englishEnded = TRUE])

\* An English safety timeout that also arms the 500 ms delay.
EnglishSafetySwitches(s, r) ==
    IF ~s.runs[r].englishEnded
    THEN [s EXCEPT !.runs[r].englishEnded = TRUE, !.bothStatus = "korean",
                   !.runs[r].delay = TRUE]
    ELSE s

\* The 6000 ms English safety timeout of run r
EnglishSafety(s, r) ==
    IF ~s.runs[r].englishEnded
    THEN [s EXCEPT !.runs[r].englishEnded = TRUE, !.bothStatus = "korean"]
    ELSE s

\* The 500 ms timeout of run r: makes and speaks the Korean utterance id and
\* arms its safety timeout.
KoreanStart(s, r, id) ==
    [s EXCEPT !.runs[r].koreanEnded = FALSE,
              !.queue = Append(@, id),
              !.runs[r].koSafety = TRUE]

\* koreanUtterance.onend of run r
KoreanOnEnd(s, r) ==
    IF s.runs[r].koreanEnded THEN s
    ELSE ResetBothButton([s EXCEPT !.runs[r].koreanEnded = TRUE])

\* koreanUtterance.onerror of run r
KoreanOnError(s, r) ==
    IF s.runs[r].koreanEnded THEN s
    ELSE ResetBothButton([s EXCEPT !.runs[r].koreanEnded = TRUE])

\* The 8000 ms Korean safety timeout of run r
KoreanSafety(s, r) ==
    IF ~s.runs[r].koreanEnded
    THEN ResetBothButton([s EXCEPT !.runs[r].koreanEnded = TRUE])
    ELSE s

\* The script state after a handler returned s.
Commit(s) ==
    /\ isPlaying' = s.isPlaying
    /\ speechTimer' = s.speechTimer
    /\ disabled' = s.disabled
    /\ status' = s.status
    /\ watchdogs' = s.watchdogs
    /\ clearTimers' = s.clearTimers
    /\ queue' = s.queue
    /\ cancelled' = s.cancelled
    /\ clips' = s.clips
    /\ renderCalls' = s.renderCalls
    /\ bothPlaying' = s.bothPlaying
    /\ bothTimer' = s.bothTimer
    /\ bothDisabled' = s.bothDisabled
    /\ bothStatus' = s.bothStatus
    /\ bothClears' = s.bothClears
    /\ outerTimers' = s.outerTimers
    /\ runs' = s.runs
    /\ UNCHANGED <<meaning, navVars, estVars>>

\* Indicators written by a handler are those of the request it belongs to.
Shown(id, s) == terminals' = [terminals EXCEPT ![id] = @ \o s.ind]

\* State of the scripts right after a page with the buttons bs was built: every
\* flag false, every timer null, one gTTS rendering attempted per button.
InitScripts(bs) ==
    /\ isPlaying = [b \in Buttons |-> FALSE]
    /\ speechTimer = [b \in Buttons |-> Null]
    /\ disabled = [b \in Buttons |-> FALSE]
    /\ status = [b \in Buttons |-> ""]
    /\ \E ok \in [bs -> BOOLEAN] :
          fallbackAudio = [b \in Buttons |->
              IF b \in bs THEN RenderFallback(Text(b), Lang(b), ok[b]) ELSE <<>>]
    /\ engine \in BOOLEAN
    /\ renderCalls = Cardinality(bs)
    /\ watchdogs = {}
    /\ clearTimers = [b \in Buttons |-> 0]
    /\ queue = <<>>
    /\ cancelled = {}
    /\ clips = {}
    /\ sessions = <<>>
    /\ terminals = <<>>
    /\ lastEvent = [op |-> "load", b |-> "", id |-> Null, audioThrew |-> FALSE,
                    run |-> 0]
    /\ bothPlaying = FALSE
    /\ bothTimer = Null
    /\ bothDisabled = FALSE
    /\ bothStatus = ""
    /\ bothClears = 0
    /\ outerTimers = {}
    /\ runs = <<>>

\* rate = 0.8 if lang == 'en' else 0.9, in tenths.
Rate(lang) == IF lang = "en" THEN 8 ELSE 9

\* Durations are kept in this fraction of a millisecond, which the division
\* by 12 and by either rate leaves whole.
Unit == CharsPerSecond * Rate("en") * Rate("ko")

\* (len(text) / 12) * 1000 * (1 / rate) + 1500, in Unit-ths of a millisecond
UnflooredDuration(len, rate) ==
    len * MsPerSecond * 10 * (Unit \div (CharsPerSecond * rate)) + MarginMs * Unit

\* The estimate without its floor.
EstimatedDurationNoFloor(len, rate) == UnflooredDuration(len, rate)

\* The estimate with the rate multiplied instead of divided.
EstimatedDurationTimesRate(len, rate) ==
    LET term == len * MsPerSecond * rate * (Unit \div (CharsPerSecond * 10))
                  + MarginMs * Unit
    IN  IF term >= FloorMs * Unit THEN term ELSE FloorMs * Unit

\* estimated_duration, in Unit-ths of a millisecond
EstimatedDuration(len, rate) ==
    LET term == UnflooredDuration(len, rate)
    IN  IF term >= FloorMs * Unit THEN term ELSE FloorMs * Unit

\* The estimate create_instant_speech_button makes for a text of len
\* characters in language lang.
Evaluation(len, lang) ==
    [len |-> len, rate |-> Rate(lang),
     duration |-> EstimatedDuration(len, Rate(lang))]

\* vocab_data = None
NoData == [none |-> TRUE, rows |-> <<>>]

\* The session state a new session starts with; nothing is drawn yet.
SessionInit ==
    /\ vocab_data = NoData
    /\ current_index = 0
    /\ data_loaded = FALSE
    /\ cache = {}
    /\ screen = "blank"
    /\ lastLoad = "none"
    /\ navEvent = [op |-> "new", from |-> 0, dead |-> FALSE, loads |-> 0]
    /\ estimate = Evaluation(Len(Word), "en")
    /\ estimateBefore = estimate

\* A page built for a card whose meaning is an ordinary word.
InitPage(bs) ==
    /\ meaning = <<"s", "a", "g", "w", "a">>
    /\ InitScripts(bs)
    /\ SessionInit

Ids == 1..Len(sessions)

\* Number of requests the playback buttons accepted.
ButtonSessions == Cardinality({i \in Ids : sessions[i].owner \in Buttons})

\* The handler that ran: its name, its button, the request it belongs to and
\* whether the catch branch of playFallbackAudio ran in it.
Event(op, b, id, threw) ==
    [op |-> op, b |-> b, id |-> id, audioThrew |-> threw, run |-> 0]

\* A handler of run r of the sequential script; id is its utterance, if any.
BothEvent(op, id, r) ==
    [op |-> op, b |-> "both", id |-> id, audioThrew |-> FALSE, run |-> r]

\* A click on button b. The request is accepted when the handler got past its
\* guard, which always leaves a trace in the script state.
Click(b) ==
    \E throws \in BOOLEAN, audioOk \in BOOLEAN :
      LET id == Len(sessions) + 1
          s == InstantSpeak(State, b, id, throws, audioOk)
          accepted == s # State
          fellBack == accepted /\ id \notin Range(s.queue)
      IN  /\ accepted => ButtonSessions < MaxSessions
          /\ Commit(s)
          /\ IF accepted
             THEN /\ sessions' = Append(sessions,
                        [owner |-> b, run |-> 0, text |-> Text(b),
                         lang |-> LangCode(Lang(b))])
                  /\ terminals' = Append(terminals, s.ind)
                  /\ lastEvent' = Event("instantSpeak", b, id,
                        fellBack /\ fallbackAudio[b] # <<>> /\ ~audioOk)
             ELSE /\ UNCHANGED <<sessions, terminals>>
                  /\ lastEvent' = Event("instantSpeak", b, Null, FALSE)
          /\ UNCHANGED <<fallbackAudio, engine>>

\* The utterance id leaves the engine: it was being voiced, or cancel() removed it.
Deliverable(id) == id \in cancelled \/ (queue # <<>> /\ id = Head(queue))

Dequeue(s, id) ==
    [s EXCEPT !.queue = IF s.queue # <<>> /\ Head(s.queue) = id THEN Tail(@) ELSE @,
              !.cancelled = @ \ {id}]

\* The engine fires the end event of utterance id.
EngineEnd(id) ==
    /\ Deliverable(id)
    /\ sessions[id].owner \in Buttons
    /\ LET s == UtteranceOnEnd(Dequeue(State, id), sessions[id].owner)
       IN  /\ Commit(s)
           /\ Shown(id, s)
    /\ lastEvent' = Event("onend", sessions[id].owner, id, FALSE)
    /\ UNCHANGED <<fallbackAudio, engine, sessions>>

\* The engine fires the error event of utterance id.
EngineError(id) ==
    /\ Deliverable(id)
    /\ sessions[id].owner \in Buttons
    /\ \E audioOk \in BOOLEAN :
         LET s == UtteranceOnError(Dequeue(State, id), sessions[id].owner, id, audioOk)
         IN  /\ Commit(s)
             /\ Shown(id, s)
             /\ lastEvent' = Event("onerror", sessions[id].owner, id,
                   fallbackAudio[sessions[id].owner] # <<>> /\ ~audioOk)
    /\ UNCHANGED <<fallbackAudio, engine, sessions>>

\* The engine stops voicing utterance id and fires no event (the defect the
\* forced-completion timer compensates for).
EngineSilent(id) ==
    /\ queue # <<>> /\ id = Head(queue)
    /\ Commit(Dequeue(State, id))
    /\ lastEvent' = Event("silent", sessions[id].owner, id, FALSE)
    /\ UNCHANGED <<fallbackAudio, engine, sessions, terminals>>

\* The speechTimer timeout with handle id expires.
WatchdogExpire(id) ==
    /\ id \in watchdogs
    /\ LET s == WatchdogCallback([State EXCEPT !.watchdogs = @ \ {id}],
                                 sessions[id].owner)
       IN  /\ Commit(s)
           /\ Shown(id, s)
    /\ lastEvent' = Event("watchdog", sessions[id].owner, id, FALSE)
    /\ UNCHANGED <<fallbackAudio, engine, sessions>>

\* The fallback clip c plays to its end.
ClipEnded(c) ==
    /\ c \in clips
    /\ LET s == AudioOnEnded([State EXCEPT !.clips = @ \ {c}], sessions[c.id].owner)
       IN  /\ Commit(s)
           /\ Shown(c.id, s)
    /\ lastEvent' = Event("onended", sessions[c.id].owner, c.id, FALSE)
    /\ UNCHANGED <<fallbackAudio, engine, sessions>>

\* The fallback clip c fails to decode or play.
ClipError(c) ==
    /\ c \in clips
    /\ LET s == AudioOnError([State EXCEPT !.clips = @ \ {c}], sessions[c.id].owner)
       IN  /\ Commit(s)
           /\ Shown(c.id, s)
    /\ lastEvent' = Event("audioerror", sessions[c.id].owner, c.id, FALSE)
    /\ UNCHANGED <<fallbackAudio, engine, sessions>>

\* One of the timeouts that blank the status line expires.
StatusClear(b) ==
    /\ clearTimers[b] > 0
    /\ clearTimers' = [clearTimers EXCEPT ![b] = @ - 1]
    /\ status' = [status EXCEPT ![b] = ""]
    /\ lastEvent' = Event("statusclear", b, Null, FALSE)
    /\ UNCHANGED <<isPlaying, speechTimer, disabled, fallbackAudio, engine,
                   renderCalls, watchdogs, queue, cancelled, clips, sessions,
                   terminals, bothVars, meaning, navVars, estVars>>

\* The script state after a handler of run r returned s; resets counts the
\* calls of resetBothButton made on behalf of the run.
CommitRun(s, r) ==
    Commit([s EXCEPT !.runs[r].resets = @ + Len(s.ind)])

Runs == 1..Len(runs)

\* A click on the sequential button.
ClickBoth ==
    LET r == Len(runs) + 1
        id == Len(sessions) + 1
        s == PlayBothSequentially(State, r, id)
        accepted == s # State
    IN  /\ accepted => Len(runs) < MaxRuns
        /\ Commit(s)
        /\ sessions' = IF id \in Range(s.queue)
                       THEN Append(sessions,
                              [owner |-> "bothEnglish", run |-> r,
                               text |-> Text("english"), lang |-> "en-US"])
                       ELSE sessions
        /\ terminals' = IF id \in Range(s.queue)
                        THEN Append(terminals, <<>>) ELSE terminals
        /\ lastEvent' = BothEvent("playBoth", Null, IF accepted THEN r ELSE 0)
        /\ UNCHANGED <<fallbackAudio, engine>>

\* The engine fires the end event of the English utterance of a run.
EnglishEnd(id) ==
    /\ Deliverable(id)
    /\ sessions[id].owner = "bothEnglish"
    /\ CommitRun(EnglishOnEnd(Dequeue(State, id), sessions[id].run),
                 sessions[id].run)
    /\ lastEvent' = BothEvent("englishOnend", id, sessions[id].run)
    /\ UNCHANGED <<fallbackAudio, engine, sessions, terminals>>

\* The engine fires the error event of the English utterance of a run.
EnglishError(id) ==
    /\ Deliverable(id)
    /\ sessions[id].owner = "bothEnglish"
    /\ CommitRun(EnglishOnError(Dequeue(State, id), sessions[id].run),
                 sessions[id].run)
    /\ lastEvent' = BothEvent("englishOnerror", id, sessions[id].run)
    /\ UNCHANGED <<fallbackAudio, engine, sessions, terminals>>

\* The English safety timeout of run r expires.
EnglishSafetyExpire(r) ==
    /\ runs[r].enSafety
    /\ CommitRun(EnglishSafety([State EXCEPT !.runs[r].enSafety = FALSE], r), r)
    /\ lastEvent' = BothEvent("englishSafety", Null, r)
    /\ UNCHANGED <<fallbackAudio, engine, sessions, terminals>>

\* The 500 ms timeout of run r expires.
DelayExpire(r) ==
    /\ runs[r].delay
    /\ LET id == Len(sessions) + 1
       IN  /\ CommitRun(KoreanStart([State EXCEPT !.runs[r].delay = FALSE], r, id), r)
           /\ sessions' = Append(sessions,
                  [owner |-> "bothKorean", run |-> r,
                   text |-> Text("korean"), lang |-> "ko-KR"])
           /\ terminals' = Append(terminals, <<>>)
           /\ lastEvent' = BothEvent("koreanStart", id, r)
    /\ UNCHANGED <<fallbackAudio, engine>>

\* The engine fires the end event of the Korean utterance of a run.
KoreanEnd(id) ==
    /\ Deliverable(id)
    /\ sessions[id].owner = "bothKorean"
    /\ CommitRun(KoreanOnEnd(Dequeue(State, id), sessions[id].run),
                 sessions[id].run)
    /\ lastEvent' = BothEvent("koreanOnend", id, sessions[id].run)
    /\ UNCHANGED <<fallbackAudio, engine, sessions, terminals>>

\* The engine fires the error event of the Korean utterance of a run.
KoreanError(id) ==
    /\ Deliverable(id)
    /\ sessions[id].owner = "bothKorean"
    /\ CommitRun(KoreanOnError(Dequeue(State, id), sessions[id].run),
                 sessions[id].run)
    /\ lastEvent' = BothEvent("koreanOnerror", id, sessions[id].run)
    /\ UNCHANGED <<fallbackAudio, engine, sessions, terminals>>

\* The Korean safety timeout of run r expires.
KoreanSafetyExpire(r) ==
    /\ runs[r].koSafety
    /\ CommitRun(KoreanSafety([State EXCEPT !.runs[r].koSafety = FALSE], r), r)
    /\ lastEvent' = BothEvent("koreanSafety", Null, r)
    /\ UNCHANGED <<fallbackAudio, engine, sessions, terminals>>

\* The 15 s timeout with handle r expires.
OuterExpire(r) ==
    /\ r \in outerTimers
    /\ CommitRun(ResetBothButton([State EXCEPT !.outerTimers = @ \ {r}]), r)
    /\ lastEvent' = BothEvent("outerTimer", Null, r)
    /\ UNCHANGED <<fallbackAudio, engine, sessions, terminals>>

\* One of the timeouts that blank both_status expires.
BothStatusClear ==
    /\ bothClears > 0
    /\ bothClears' = bothClears - 1
    /\ bothStatus' = ""
    /\ lastEvent' = BothEvent("bothStatusclear", Null, 0)
    /\ UNCHANGED <<buttonVars, fallbackAudio, engine, renderCalls, queue,
                   cancelled, sessions, bothPlaying, bothTimer, bothDisabled,
                   outerTimers, runs, meaning, navVars,
                   estVars>>

\* A page showing the English button alone.
Init == InitPage({"english"})

Next ==
    \/ Click("english")
    \/ \E id \in Ids : EngineEnd(id)
    \/ \E id \in Ids : EngineError(id)
    \/ \E id \in Ids : EngineSilent(id)
    \/ \E id \in Ids : WatchdogExpire(id)
    \/ \E c \in clips : ClipEnded(c)
    \/ \E c \in clips : ClipError(c)
    \/ StatusClear("english")

Spec == Init /\ [][Next]_vars

\* A timeout that is pending and not cleared expires: the host's timer queue
\* runs every due callback. Nothing is assumed of the engine or of the clips.
Fairness == \A id \in 1..MaxSessions : WF_vars(WatchdogExpire(id))

FairSpec == Spec /\ Fairness

\* A page showing the Korean button alone, for a card whose meaning may be
\* white space only.
KoreanInit ==
    /\ meaning \in Meanings
    /\ InitScripts({"korean"})
    /\ SessionInit

KoreanNext ==
    \/ Click("korean")
    \/ \E id \in Ids : EngineEnd(id)
    \/ \E id \in Ids : EngineError(id)
    \/ \E id \in Ids : EngineSilent(id)
    \/ \E id \in Ids : WatchdogExpire(id)
    \/ \E c \in clips : ClipEnded(c)
    \/ \E c \in clips : ClipError(c)
    \/ StatusClear("korean")

KoreanSpec == KoreanInit /\ [][KoreanNext]_vars

\* The sequential button alone.
BothInit == InitPage({})

\* A click on the sequential button, accepted while the runs begun and the
\* utterances made are fewer than MaxBothWork in all.
BothClick ==
    /\ ~bothPlaying => Len(runs) + Len(sessions) < MaxBothWork
    /\ ClickBoth

BothNext ==
    \/ BothClick
    \/ \E id \in Ids : EnglishEnd(id)
    \/ \E id \in Ids : EnglishError(id)
    \/ \E id \in Ids : KoreanEnd(id)
    \/ \E id \in Ids : KoreanError(id)
    \/ \E id \in Ids : EngineSilent(id)
    \/ \E r \in Runs : EnglishSafetyExpire(r)
    \/ \E r \in Runs : DelayExpire(r)
    \/ \E r \in Runs : KoreanSafetyExpire(r)
    \/ \E r \in Runs : OuterExpire(r)
    \/ BothStatusClear

BothSpec == BothInit /\ [][BothNext]_vars

\* Every pending timeout of the sequential script expires in the end. Nothing
\* is assumed of the engine.
BothFairness ==
    \A r \in 1..MaxRuns :
        /\ WF_vars(r \in Runs /\ OuterExpire(r))
        /\ WF_vars(r \in Runs /\ EnglishSafetyExpire(r))
        /\ WF_vars(r \in Runs /\ DelayExpire(r))
        /\ WF_vars(r \in Runs /\ KoreanSafetyExpire(r))

BothFairSpec == BothSpec /\ BothFairness

\* The card: the two buttons and the sequential button on one page, sharing
\* the speech engine; bounded by the utterances made in all.
CardInit == InitPage(Buttons)

CardNext ==
    \/ Len(sessions) < MaxCardUtterances /\ \E b \in Buttons : Click(b)
    \/ Len(sessions) < MaxCardUtterances - 1 /\ ClickBoth
    \/ \E id \in Ids : EngineEnd(id)
    \/ \E id \in Ids : EngineError(id)
    \/ \E id \in Ids : EngineSilent(id)
    \/ \E id \in Ids : WatchdogExpire(id)
    \/ \E c \in clips : ClipEnded(c)
    \/ \E c \in clips : ClipError(c)
    \/ \E b \in Buttons : StatusClear(b)
    \/ \E id \in Ids : EnglishEnd(id)
    \/ \E id \in Ids : EnglishError(id)
    \/ \E id \in Ids : KoreanEnd(id)
    \/ \E id \in Ids : KoreanError(id)
    \/ \E r \in Runs : EnglishSafetyExpire(r)
    \/ \E r \in Runs : DelayExpire(r)
    \/ \E r \in Runs : KoreanSafetyExpire(r)
    \/ \E r \in Runs : OuterExpire(r)
    \/ BothStatusClear

CardSpec == CardInit /\ [][CardNext]_vars

\* text with its leading white space removed.
RECURSIVE LStrip(_)
LStrip(text) ==
    IF text # <<>> /\ Head(text) = " " THEN LStrip(Tail(text)) ELSE text

\* text with its trailing white space removed.
RECURSIVE RStrip(_)
RStrip(text) ==
    IF text # <<>> /\ text[Len(text)] = " "
    THEN RStrip(SubSeq(text, 1, Len(text) - 1)) ELSE text

Trim(text) == RStrip(LStrip(text))

(***************************************************************************)
(* The Streamlit session: loading the sheet and moving the cursor          *)
(***************************************************************************)

Max(a, b) == IF a >= b THEN a ELSE b
Min(a, b) == IF a <= b THEN a ELSE b

\* A cell pandas read as missing.
NaN == <<"NaN">>

\* Rows the published sheet can hold: full ones, one whose Word is white
\* space, one whose Meaning is white space, one whose Meaning is missing.
SheetRows ==
    <<[Word |-> <<"a">>, Meaning |-> <<"x">>],
      [Word |-> <<" ">>, Meaning |-> <<"y">>],
      [Word |-> <<"b">>, Meaning |-> <<" ">>],
      [Word |-> <<"c">>, Meaning |-> NaN],
      [Word |-> <<"d">>, Meaning |-> <<"z">>]>>

\* The rows of SheetRows at the positions in S, in their order.
Pick(S) ==
    LET Rank(i) == Cardinality({j \in S : j <= i})
    IN  [k \in 1..Cardinality(S) |-> SheetRows[CHOOSE i \in S : Rank(i) = k]]

\* The sheets of at most MaxRows of these rows.
Sheets ==
    {Pick(S) : S \in {T \in SUBSET (1..Len(SheetRows)) : Cardinality(T) <= MaxRows}}

\* load_csv_data returning (None, error).
Unreachable == [data |-> FALSE, columns |-> {}, rows |-> <<>>]

\* What load_csv_data can return: no frame, a frame without a Meaning column,
\* a frame with both columns under headers that need normalising.
Results ==
    {Unreachable}
      \cup {[data |-> TRUE, columns |-> {"Word", "Note"}, rows |-> <<>>]}
      \cup {[data |-> TRUE, columns |-> {" WORDS ", "Meaning"}, rows |-> rs] :
               rs \in Sheets}

\* str(col).strip().lower() on the headers above.
Normalized(col) ==
    CASE col = " WORDS " -> "words"
      [] col = "Meaning" -> "meaning"
      [] col = "Word" -> "word"
      [] col = "Note" -> "note"

\* column_mapping: the headers taken for Word and for Meaning.
ColumnMapping(columns) ==
    [Word |-> {c \in columns : Normalized(c) \in {"word", "words"}},
     Meaning |-> {c \in columns : Normalized(c) \in {"meaning", "meanings"}}]

\* data.dropna()
DropNa(rows) == SelectSeq(rows, LAMBDA r : r.Word # NaN /\ r.Meaning # NaN)

\* data[data['Word'].str.strip() != '']
NonBlankWord(rows) == SelectSeq(rows, LAMBDA r : Trim(r.Word) # <<>>)

\* The session state a script run reads and writes; loads counts the load
\* attempts made and rerun is set by st.rerun().
NavState ==
    [vocab_data |-> vocab_data, current_index |-> current_index,
     data_loaded |-> data_loaded, cache |-> cache, screen |-> screen,
     lastLoad |-> lastLoad, loads |-> 0, rerun |-> FALSE]

\* auto_load_data(); fetched is what the sheet provider answers when the
\* cache holds no result.
AutoLoadData(n, fetched) ==
    IF n.data_loaded THEN n
    ELSE
      LET result == IF n.cache # {} THEN CHOOSE c \in n.cache : TRUE ELSE fetched
          n1 == [n EXCEPT !.cache = {result}, !.loads = @ + 1]
          mapping == ColumnMapping(result.columns)
      IN  IF result.data
          THEN IF mapping.Word # {} /\ mapping.Meaning # {}
               THEN [n1 EXCEPT
                       !.vocab_data = [none |-> FALSE,
                                       rows |-> NonBlankWord(DropNa(result.rows))],
                       !.current_index = 0,
                       !.data_loaded = TRUE,
                       !.lastLoad = "ok"]
               ELSE [n1 EXCEPT !.lastLoad = "unavailable"]
          ELSE [n1 EXCEPT !.lastLoad = "unavailable"]

\* Orders of MaxRows rows sample(frac=1) can draw.
Orders == {p \in [1..MaxRows -> 1..MaxRows] : \A i, j \in 1..MaxRows : p[i] = p[j] => i = j}

\* rows in the order p gives its positions.
Shuffled(rows, p) ==
    LET Rank(i) == Cardinality({j \in 1..Len(rows) : p[j] <= p[i]})
    IN  [k \in 1..Len(rows) |-> rows[CHOOSE i \in 1..Len(rows) : Rank(i) = k]]

\* No widget was used: the run of a new session, or the run st.rerun() starts.
NoEvent == [op |-> "run", jump |-> 0, order |-> [i \in 1..MaxRows |-> i]]

\* The sidebar. shown is the session state the widgets the user saw were
\* drawn from: the selectbox keeps the user's choice only if it is drawn again
\* with the same options and the same index.
Sidebar(n, ev, shown) ==
    IF ev.op = "refresh"
    THEN [n EXCEPT !.cache = {}, !.data_loaded = FALSE, !.rerun = TRUE]
    ELSE IF n.vocab_data.none THEN n
    ELSE
      LET n1 == IF ev.op = "shuffle"
                THEN [n EXCEPT !.vocab_data.rows = Shuffled(@, ev.order),
                               !.current_index = 0]
                ELSE n
          same == /\ n1.vocab_data = shown.vocab_data
                  /\ n1.current_index = shown.current_index
          quick_jump == IF ev.op = "jump" /\ same THEN ev.jump
                        ELSE n1.current_index
      IN  IF Len(n1.vocab_data.rows) > 0 /\ quick_jump # n1.current_index
          THEN [n1 EXCEPT !.current_index = quick_jump, !.rerun = TRUE]
          ELSE n1

\* A main area whose previous and next handlers do not clamp the cursor.
MainAreaNoClamp(n, ev) ==
    LET data == n.vocab_data.rows
        current_idx == n.current_index
    IN  IF n.vocab_data.none THEN [n EXCEPT !.screen = "empty"]
        ELSE IF Len(data) = 0 THEN [n EXCEPT !.screen = "ZeroDivisionError"]
        ELSE IF current_idx < Len(data)
             THEN CASE ev.op = "previous" ->
                         [n EXCEPT !.current_index = current_idx - 1,
                                   !.rerun = TRUE]
                    [] ev.op = "next" ->
                         [n EXCEPT !.current_index = current_idx + 1,
                                   !.rerun = TRUE]
                    [] ev.op = "restart" ->
                         [n EXCEPT !.current_index = 0, !.rerun = TRUE]
                    [] OTHER -> [n EXCEPT !.screen = "card"]
             ELSE [n EXCEPT !.screen = "progress"]

\* The main area: the progress line, the card and its navigation buttons, or
\* the empty-state text. The progress line divides by len(data).
MainArea(n, ev) ==
    LET data == n.vocab_data.rows
        current_idx == n.current_index
    IN  IF n.vocab_data.none THEN [n EXCEPT !.screen = "empty"]
        ELSE IF Len(data) = 0 THEN [n EXCEPT !.screen = "ZeroDivisionError"]
        ELSE IF current_idx < Len(data)
             THEN CASE ev.op = "previous" ->
                         [n EXCEPT !.current_index = Max(0, current_idx - 1),
                                   !.rerun = TRUE]
                    [] ev.op = "next" ->
                         [n EXCEPT !.current_index = Min(Len(data) - 1, current_idx + 1),
                                   !.rerun = TRUE]
                    [] ev.op = "restart" ->
                         [n EXCEPT !.current_index = 0, !.rerun = TRUE]
                    [] OTHER -> [n EXCEPT !.screen = "card"]
             ELSE [n EXCEPT !.screen = "progress"]

\* One run of the script from top to bottom, or to its st.rerun().
RunScript(n, ev, fetched) ==
    LET s == Sidebar(AutoLoadData(n, fetched), ev, n)
    IN  IF s.rerun THEN s ELSE MainArea(s, ev)

\* The run a widget starts, and the run its st.rerun() starts.
Interaction(n, ev, fetched, refetched) ==
    LET first == RunScript(n, ev, fetched)
    IN  IF first.rerun
        THEN RunScript([first EXCEPT !.rerun = FALSE], NoEvent, refetched)
        ELSE first

\* The user uses a widget of the page shown.
Use(ev) ==
    \E fetched \in IF ~data_loaded /\ cache = {} THEN Results ELSE {Unreachable} :
      \E refetched \in IF ev.op = "refresh" THEN Results ELSE {Unreachable} :
        \E n \in {Interaction(NavState, ev, fetched, refetched)} :
            /\ vocab_data' = n.vocab_data
            /\ current_index' = n.current_index
            /\ data_loaded' = n.data_loaded
            /\ cache' = n.cache
            /\ screen' = n.screen
            /\ lastLoad' = n.lastLoad
            /\ navEvent' = [op |-> ev.op, from |-> current_index, dead |-> FALSE,
                            loads |-> n.loads]
            /\ UNCHANGED <<scriptVars, estVars>>

\* A click on a button drawn disabled: the browser starts no run.
DeadClick(op) ==
    /\ navEvent' = [op |-> op, from |-> current_index, dead |-> TRUE, loads |-> 0]
    /\ UNCHANGED <<vocab_data, current_index, data_loaded, cache, screen,
                   lastLoad, scriptVars, estVars>>

\* The browser opens the page: the first run of the session.
Open == screen = "blank" /\ Use([NoEvent EXCEPT !.op = "open"])

Refresh == screen # "blank" /\ Use([NoEvent EXCEPT !.op = "refresh"])

ShuffleOrder ==
    /\ screen # "blank" /\ ~vocab_data.none
    /\ \E p \in Orders : Use([NoEvent EXCEPT !.op = "shuffle", !.order = p])

QuickJump ==
    /\ screen # "blank" /\ ~vocab_data.none
    /\ \E j \in 0..(Len(vocab_data.rows) - 1) :
          j # current_index /\ Use([NoEvent EXCEPT !.op = "jump", !.jump = j])

Previous ==
    /\ screen = "card"
    /\ IF current_index = 0 THEN DeadClick("previous")
       ELSE Use([NoEvent EXCEPT !.op = "previous"])

NextWord ==
    /\ screen = "card"
    /\ IF current_index >= Len(vocab_data.rows) - 1 THEN DeadClick("next")
       ELSE Use([NoEvent EXCEPT !.op = "next"])

Restart == screen = "card" /\ Use([NoEvent EXCEPT !.op = "restart"])

Done == screen = "card" /\ Use([NoEvent EXCEPT !.op = "done"])

\* The hour st.cache_data keeps a result has passed.
CacheExpire ==
    /\ cache # {}
    /\ cache' = {}
    /\ navEvent' = [op |-> "expire", from |-> current_index, dead |-> FALSE,
                    loads |-> 0]
    /\ UNCHANGED <<vocab_data, current_index, data_loaded, screen, lastLoad,
                   scriptVars, estVars>>

\* A new session; no script is embedded until a card is drawn.
NavInit == InitPage({})

NavNext ==
    \/ Open
    \/ Refresh
    \/ ShuffleOrder
    \/ QuickJump
    \/ Previous
    \/ NextWord
    \/ Restart
    \/ Done
    \/ CacheExpire

NavSpec == NavInit /\ [][NavNext]_vars

(***************************************************************************)
(* The duration estimate                                                   *)
(***************************************************************************)

\* create_instant_speech_button is called for a text of len characters.
Estimate(len, lang) ==
    /\ estimateBefore' = estimate
    /\ estimate' = Evaluation(len, lang)
    /\ UNCHANGED <<scriptVars, navVars>>

EstInit ==
    /\ meaning = <<"s", "a", "g", "w", "a">>
    /\ InitScripts({})
    /\ vocab_data = NoData
    /\ current_index = 0
    /\ data_loaded = FALSE
    /\ cache = {}
    /\ screen = "blank"
    /\ lastLoad = "none"
    /\ navEvent = [op |-> "new", from |-> 0, dead |-> FALSE, loads |-> 0]
    /\ \E len \in 0..MaxLen, lang \in {"en", "ko"} : estimate = Evaluation(len, lang)
    /\ estimateBefore = estimate

EstNext == \E len \in 0..MaxLen, lang \in {"en", "ko"} : Estimate(len, lang)

EstSpec == EstInit /\ [][EstNext]_vars

(***************************************************************************)
(* Claims                                                                  *)
(***************************************************************************)

\* Request id is the one the surface of its button is busy with.
Current(id) ==
    /\ id \in Ids
    /\ isPlaying[sessions[id].owner]
    /\ speechTimer[sessions[id].owner] = id

\* The engine has fired no event for utterance id.
NoEngineEvent(id) == id \in Range(queue) \/ id \in cancelled

\* C1: every accepted playback request eventually returns its surface to Idle
\* (busy flag false, button enabled) whatever the engine does, and the expiry
\* of a forced-completion timer always leaves the surface Idle.
C1_WatchdogReturnsToIdle ==
    /\ \A b \in Buttons : isPlaying[b] ~> (~isPlaying[b] /\ ~disabled[b])
    /\ [][lastEvent'.op = "watchdog" =>
            (~isPlaying'[lastEvent'.b] /\ ~disabled'[lastEvent'.b])]_vars

\* C1 witness: the timer of a request expired while the engine had fired
\* nothing for its utterance, and the surface is Idle.
C1_Witness ==
    /\ lastEvent.op = "watchdog"
    /\ NoEngineEvent(lastEvent.id)
    /\ ~isPlaying[lastEvent.b] /\ ~disabled[lastEvent.b]

Owner(id) == sessions[id].owner

Last(q) == q[Len(q)]

\* The handler of the step belongs to request id and is one of its engine or
\* clip events.
EventOf(id, ops) == lastEvent'.id = id /\ lastEvent'.op \in ops

\* C2: among the terminal signals of one request only the first runs the
\* reset and shows a terminal indicator: no request has two indicators shown
\* on its behalf.
C2_ExactlyOneTerminal == \A id \in Ids : Len(terminals[id]) <= 1

\* C3: while a newer request B is Speaking, an engine or clip event of an
\* older request A of the same button leaves B busy, leaves B's timer armed
\* and starts no clip.
C3_LateEventsIgnored ==
    [][\A a \in Ids, bb \in Ids :
         (/\ a < bb
          /\ Owner(a) = Owner(bb)
          /\ Current(bb)
          /\ EventOf(a, {"onend", "onerror", "onended", "audioerror"}))
         => (/\ isPlaying'[Owner(bb)]
             /\ speechTimer'[Owner(bb)] = bb
             /\ bb \in watchdogs'
             /\ clips' \subseteq clips)]_vars

\* Pending forced-completion timers of button b.
WatchdogsOf(b) == {id \in watchdogs : Owner(id) = b}

\* C4: whenever the surface is Idle no forced-completion timer of it is pending.
C4_IdleHasNoWatchdog == \A b \in Buttons : ~isPlaying[b] => WatchdogsOf(b) = {}

\* C5: when the engine fires the error event of the current utterance, the
\* timer armed for that request is no longer pending once the handler returns.
C5_ErrorCancelsWatchdog ==
    [][\A id \in Ids :
         (Current(id) /\ EventOf(id, {"onerror"})) => id \notin watchdogs']_vars

\* C6: the error event of an utterance renders nothing anew, and when a clip
\* is embedded (and Audio works) it does not change the busy state of the
\* surface (a busy surface stays busy) and starts the clip rendered for the
\* utterance's own text and language.
C6_ErrorDelegatesToFallback ==
    [][\A id \in Ids :
         EventOf(id, {"onerror"}) =>
            /\ renderCalls' = renderCalls
            /\ (fallbackAudio[Owner(id)] # <<>> /\ ~lastEvent'.audioThrew) =>
                  /\ isPlaying'[Owner(id)] = isPlaying[Owner(id)]
                  /\ disabled'[Owner(id)] = disabled[Owner(id)]
                  /\ \E c \in clips' \ clips :
                        /\ c.id = id
                        /\ c.audio # <<>>
                        /\ c.audio[1] = sessions[id].text
                        /\ LangCode(c.audio[2]) = sessions[id].lang]_vars

\* C6 witness: the engine reported an error for the request the surface is
\* busy with and its clip is playing.
C6_Witness ==
    /\ lastEvent.op = "onerror"
    /\ isPlaying[lastEvent.b]
    /\ speechTimer[lastEvent.b] = lastEvent.id
    /\ \E c \in clips : c.id = lastEvent.id

\* The step ran playFallbackAudio for request id.
Dispatched(id) ==
    \/ EventOf(id, {"onerror"})
    \/ EventOf(id, {"instantSpeak"}) /\ id \notin Range(queue')

\* C7: when the dispatcher runs and no clip is embedded, the surface is Idle
\* at once, the indicator is the failure indicator, and nothing is retried.
C7_NoClipShowsFailure ==
    [][\A id \in 1..MaxSessions :
         (Dispatched(id) /\ fallbackAudio[lastEvent'.b] = <<>>) =>
            /\ ~isPlaying'[lastEvent'.b]
            /\ status'[lastEvent'.b] = "failed"
            /\ clips' = clips]_vars

\* C8: clip ended gives Idle with the success indicator, clip error gives Idle
\* with the failure indicator, and a request whose last indicator is failure
\* keeps failure as its last indicator.
C8_ClipOutcome ==
    [][/\ lastEvent'.op = "onended" =>
            (~isPlaying'[lastEvent'.b] /\ status'[lastEvent'.b] = "done")
       /\ lastEvent'.op = "audioerror" =>
            (~isPlaying'[lastEvent'.b] /\ status'[lastEvent'.b] = "failed")
       /\ \A id \in Ids :
            (terminals[id] # <<>> /\ Last(terminals[id]) = "failed")
            => Last(terminals'[id]) = "failed"]_vars

\* Audio outputs that are sounding: the utterance at the head of the engine's
\* queue and every clip playing.
Audible == (IF queue # <<>> THEN 1 ELSE 0) + Cardinality(clips)

\* C9: at most one audio output is active at any time.
C9_OneAudioOutput == Audible <= 1

\* C10: a click on a busy surface changes nothing, a request is accepted only
\* on an Idle surface, and no surface has two pending forced-completion timers.
C10_BusyRejects ==
    /\ [][/\ (lastEvent'.op = "instantSpeak" /\ isPlaying[lastEvent'.b]) =>
               UNCHANGED <<isPlaying, speechTimer, disabled, status, watchdogs,
                           clearTimers, queue, cancelled, clips, sessions>>
          /\ Len(sessions') > Len(sessions) => ~isPlaying[lastEvent'.b]]_vars
    /\ [](\A b \in Buttons : Cardinality(WatchdogsOf(b)) <= 1)

\* C10 witness: a click was rejected on a busy surface whose timer is pending.
C10_Witness ==
    /\ lastEvent.op = "instantSpeak" /\ lastEvent.id = Null
    /\ isPlaying[lastEvent.b]
    /\ Cardinality(WatchdogsOf(lastEvent.b)) = 1

\* C11: a click on a button whose text is empty after trimming changes
\* neither the busy flag, the timer, the button and status line nor the engine.
C11_EmptyTextNoOp ==
    [][(lastEvent'.op = "instantSpeak" /\ Trim(Text(lastEvent'.b)) = <<>>) =>
          UNCHANGED <<isPlaying, speechTimer, disabled, status, watchdogs,
                      clearTimers, queue, cancelled, clips, sessions>>]_vars

\* The English utterance of run r.
EnglishOf(r) ==
    {e \in Ids : sessions[e].owner = "bothEnglish" /\ sessions[e].run = r}

\* The Korean utterances of run r.
KoreanOf(r) ==
    {k \in 1..Len(sessions) : sessions[k].owner = "bothKorean" /\ sessions[k].run = r}

\* C12: the Korean utterance of a run is made only when the 500 ms delay of
\* that run expires, after the run's English utterance was made and has left
\* the engine with its ended flag set; the utterance a click makes is the
\* English one.
C12_MeaningAfterTerm ==
    [][\A k \in (1..Len(sessions')) \ Ids :
          /\ lastEvent'.op = "playBoth" => sessions'[k].owner = "bothEnglish"
          /\ sessions'[k].owner = "bothKorean" =>
                LET r == sessions'[k].run
                IN  /\ lastEvent'.op = "koreanStart"
                    /\ runs[r].delay
                    /\ runs[r].englishEnded
                    /\ EnglishOf(r) # {}
                    /\ \A e \in EnglishOf(r) :
                          e < k /\ e \notin Range(queue) /\ e \notin cancelled]_vars

C12_Witness ==
    /\ lastEvent.op = "koreanStart"
    /\ sessions[lastEvent.id].owner = "bothKorean"
    /\ lastEvent.id \in Range(queue)

\* C13: once the English utterance of a run has its ended flag set, by its end
\* event, its error event or its safety timeout, the Korean utterance of that
\* run is made.
C13_TermEndStartsMeaning ==
    \A r \in 1..MaxRuns :
        (r \in Runs /\ runs[r].englishEnded) ~> (KoreanOf(r) # {})

\* C14: the sequential button leaves the busy state only in the 15 s timer or
\* in an end, error or safety handler of a Korean utterance that was made.
C14_IdleOnlyAfterMeaning ==
    [][(bothPlaying /\ ~bothPlaying') =>
          \/ lastEvent'.op = "outerTimer"
          \/ /\ lastEvent'.op \in {"koreanOnend", "koreanOnerror", "koreanSafety"}
             /\ KoreanOf(lastEvent'.run) # {}]_vars

\* C15: a busy sequential button becomes idle and enabled again, and the
\* expiry of the 15 s timer leaves it so.
C15_BothReturnsToIdle ==
    /\ bothPlaying ~> (~bothPlaying /\ ~bothDisabled)
    /\ [][lastEvent'.op = "outerTimer" => ~bothPlaying' /\ ~bothDisabled']_vars

\* C15 witness: a run nothing else ended was returned to idle by its timer.
C15_Witness ==
    /\ lastEvent.op = "outerTimer"
    /\ runs[lastEvent.run].resets = 1
    /\ KoreanOf(lastEvent.run) = {}
    /\ ~bothPlaying /\ ~bothDisabled

\* C16: a click on the sequential button while bothPlaying is set changes
\* nothing: no utterance, no cancel, no timer, no flag, no status.
C16_BothBusyRejects ==
    [][(lastEvent'.op = "playBoth" /\ bothPlaying) =>
          UNCHANGED <<bothVars, queue, cancelled, sessions, terminals,
                      buttonVars, clips>>]_vars

\* C16 witness: a click was rejected while a run was in progress.
C16_Witness ==
    /\ lastEvent.op = "playBoth" /\ lastEvent.run = 0
    /\ bothPlaying /\ bothTimer \in outerTimers

C18_FailedLoadBlocks == lastLoad = "unavailable" => screen = "empty"

\* C19: the estimate is at least 2000 ms, and when (len / 12) * 1000 / rate +
\* 1500 exceeds 2000 ms the estimate is that term.
C19_EstimateFloor ==
    LET d == estimate.duration
        \* 12 * rate/10 * 10 * term, the term being (len / 12) * 1000 / (rate/10) + 1500
        scale == CharsPerSecond * estimate.rate
        term == estimate.len * MsPerSecond * 10 + MarginMs * scale
    IN  /\ d >= FloorMs * Unit
        /\ term > FloorMs * scale => d * scale = term * Unit

\* C19 witness: an estimate above the floor, and one at the floor.
C19_Witness ==
    /\ estimate.duration > FloorMs * Unit
    /\ estimateBefore.duration = FloorMs * Unit
    /\ estimateBefore.len > 0

\* C20: of two estimates at the same rate the one for the longer text is not
\* the smaller, and of two estimates for the same length the one at the
\* higher rate is not the larger.
C20_EstimateMonotone ==
    /\ (estimateBefore.rate = estimate.rate /\ estimateBefore.len <= estimate.len) =>
          estimateBefore.duration <= estimate.duration
    /\ (estimateBefore.len = estimate.len /\ estimateBefore.rate <= estimate.rate) =>
          estimateBefore.duration >= estimate.duration

\* C20 witness: the same length gave a smaller estimate at the higher rate.
C20_Witness ==
    /\ estimateBefore.len = estimate.len
    /\ estimateBefore.rate < estimate.rate
    /\ estimateBefore.duration > estimate.duration

\* C21: while a button is busy the timeout its speechTimer holds is pending.
C21_BusyHasWatchdog ==
    \A b \in Buttons :
        isPlaying[b] => (speechTimer[b] # Null /\ speechTimer[b] \in WatchdogsOf(b))

\* C21 witness: a later request of the button is busy on its fallback clip
\* after the error event of its utterance, its timeout pending.
C21_Witness ==
    /\ lastEvent.op = "onerror" /\ lastEvent.id > 1
    /\ isPlaying[lastEvent.b]
    /\ \E c \in clips : c.id = lastEvent.id
    /\ speechTimer[lastEvent.b] = lastEvent.id
    /\ lastEvent.id \in watchdogs

\* C22: resetBothButton runs at most once on behalf of each accepted
\* sequential request, and the busy state of a request is ended only by a
\* handler of that request, never by one of an earlier request.
C22_OneResetPerRun ==
    /\ [](\A r \in Runs : runs[r].resets <= 1)
    /\ [][(bothPlaying /\ ~bothPlaying') => lastEvent'.run = Len(runs)]_vars

\* C23: when the main area is drawn with vocabulary data present the set has
\* at least one row, and the progress line does not divide by zero.
C23_RenderedSetNonEmpty ==
    (screen # "blank" /\ ~vocab_data.none) =>
        (Len(vocab_data.rows) > 0 /\ screen # "ZeroDivisionError")

====
